---- MODULE Spec2Model ----
(***************************************************************************)
(* Market Sentiment Analyzer: ticker resolution, news fetching, sentiment  *)
(* analysis and the pipeline that sequences them.                          *)
(*                                                                         *)
(* Representation.  A Python str is a tuple of one-character strings, so   *)
(* that lower(), strip() and the regular-expression substitution of _norm  *)
(* can be computed character by character.  Python None is the tuple None, *)
(* which is no string (its only element is not a character).  A float is   *)
(* an integer number of thousandths (1.0 is 1000).                         *)
(***************************************************************************)
EXTENDS Integers, Sequences, FiniteSets, TLC

None == <<"NoneType">>

\* Python truthiness of an Optional[str]
Truthy(s) == s # None /\ s # <<>>

\* x or y, for Optional[str]
Or(x, y) == IF Truthy(x) THEN x ELSE y

(***************************************************************************)
(* str methods                                                             *)
(***************************************************************************)
UpperChars == <<"A","B","C","D","E","F","G","H","I","J","K","L","M",
                "N","O","P","Q","R","S","T","U","V","W","X","Y","Z">>
LowerChars == <<"a","b","c","d","e","f","g","h","i","j","k","l","m",
                "n","o","p","q","r","s","t","u","v","w","x","y","z">>
DigitChars == <<"0","1","2","3","4","5","6","7","8","9">>

Range(f) == {f[i] : i \in DOMAIN f}

IndexOf(seq, c) == CHOOSE i \in DOMAIN seq : seq[i] = c

LowerChar(c) == IF c \in Range(UpperChars) THEN LowerChars[IndexOf(UpperChars, c)] ELSE c

UpperChar(c) == IF c \in Range(LowerChars) THEN UpperChars[IndexOf(LowerChars, c)] ELSE c

\* str.lower()
Lower(s) == [i \in 1..Len(s) |-> LowerChar(s[i])]

\* str.upper()
Upper(s) == [i \in 1..Len(s) |-> UpperChar(s[i])]

\* the characters str.strip() removes
Whitespace == {" ", "\t", "\n", "\r"}

RECURSIVE LStrip(_)
LStrip(s) == IF s # <<>> /\ Head(s) \in Whitespace THEN LStrip(Tail(s)) ELSE s

RECURSIVE RStrip(_)
RStrip(s) ==
    IF s # <<>> /\ s[Len(s)] \in Whitespace THEN RStrip(SubSeq(s, 1, Len(s) - 1)) ELSE s

\* str.strip()
Strip(s) == RStrip(LStrip(s))

\* the character class [a-z0-9]
IsLowerAlnum(c) == c \in Range(LowerChars) \cup Range(DigitChars)

\* re.sub(r"[^a-z0-9]+", " ", s): every maximal run of other characters
\* becomes one space
RECURSIVE ReSubRuns(_, _)
ReSubRuns(s, inRun) ==
    IF s = <<>> THEN <<>>
    ELSE IF IsLowerAlnum(Head(s)) THEN <<Head(s)>> \o ReSubRuns(Tail(s), FALSE)
    ELSE IF inRun THEN ReSubRuns(Tail(s), TRUE)
    ELSE <<" ">> \o ReSubRuns(Tail(s), TRUE)

\* ticker_resolver._norm
_norm(s) == Strip(ReSubRuns(Lower(IF Truthy(s) THEN s ELSE <<>>), FALSE))

\* str.split() of a normalized string: the maximal runs without a space
RECURSIVE SplitAcc(_, _)
SplitAcc(s, cur) ==
    IF s = <<>> THEN (IF cur = <<>> THEN <<>> ELSE <<cur>>)
    ELSE IF Head(s) \in Whitespace
         THEN (IF cur = <<>> THEN <<>> ELSE <<cur>>) \o SplitAcc(Tail(s), <<>>)
    ELSE SplitAcc(Tail(s), Append(cur, Head(s)))

Split(s) == SplitAcc(s, <<>>)

\* tok in combined (substring test)
Contains(hay, tok) ==
    \E i \in 0..(Len(hay) - Len(tok)) : SubSeq(hay, i + 1, i + Len(tok)) = tok

(***************************************************************************)
(* ticker_resolver: the curated table                                      *)
(***************************************************************************)
NASDAQ == <<"N","A","S","D","A","Q">>
NSE == <<"N","S","E">>
EQUITY == <<"E","Q","U","I","T","Y">>

AppleInc == <<"A","p","p","l","e"," ","I","n","c">>
AlphabetInc == <<"A","l","p","h","a","b","e","t"," ","I","n","c">>
MicrosoftCorporation ==
    <<"M","i","c","r","o","s","o","f","t"," ","C","o","r","p","o","r","a","t","i","o","n">>
AmazonComInc == <<"A","m","a","z","o","n",".","c","o","m",","," ","I","n","c",".">>
TeslaInc == <<"T","e","s","l","a",","," ","I","n","c",".">>
MetaPlatformsInc ==
    <<"M","e","t","a"," ","P","l","a","t","f","o","r","m","s",","," ","I","n","c",".">>
NvidiaCorporation ==
    <<"N","V","I","D","I","A"," ","C","o","r","p","o","r","a","t","i","o","n">>
RelianceIndustries ==
    <<"R","e","l","i","a","n","c","e"," ","I","n","d","u","s","t","r","i","e","s">>
TataConsultancyServices ==
    <<"T","a","t","a"," ","C","o","n","s","u","l","t","a","n","c","y"," ",
      "S","e","r","v","i","c","e","s">>
Infosys == <<"I","n","f","o","s","y","s">>
HdfcBank == <<"H","D","F","C"," ","B","a","n","k">>
IciciBank == <<"I","C","I","C","I"," ","B","a","n","k">>

Limited == <<" ","L","i","m","i","t","e","d">>

\* the rows of CURATED: the name that is normalized into the key, and the
\* (symbol, name, exchange) it maps to
CuratedRows == <<
    <<AppleInc, <<"A","A","P","L">>, AppleInc \o <<".">>, NASDAQ>>,
    <<AlphabetInc, <<"G","O","O","G","L">>, AlphabetInc \o <<".">>, NASDAQ>>,
    <<MicrosoftCorporation, <<"M","S","F","T">>, MicrosoftCorporation, NASDAQ>>,
    <<AmazonComInc, <<"A","M","Z","N">>, AmazonComInc, NASDAQ>>,
    <<TeslaInc, <<"T","S","L","A">>, TeslaInc, NASDAQ>>,
    <<MetaPlatformsInc, <<"M","E","T","A">>, MetaPlatformsInc, NASDAQ>>,
    <<NvidiaCorporation, <<"N","V","D","A">>, NvidiaCorporation, NASDAQ>>,
    <<RelianceIndustries, <<"R","E","L","I","A","N","C","E",".","N","S">>,
      RelianceIndustries \o Limited, NSE>>,
    <<TataConsultancyServices, <<"T","C","S",".","N","S">>,
      TataConsultancyServices \o Limited, NSE>>,
    <<Infosys, <<"I","N","F","Y",".","N","S">>, Infosys \o Limited, NSE>>,
    <<HdfcBank, <<"H","D","F","C","B","A","N","K",".","N","S">>, HdfcBank \o Limited, NSE>>,
    <<IciciBank, <<"I","C","I","C","I","B","A","N","K",".","N","S">>,
      IciciBank \o Limited, NSE>> >>

CuratedKeys == {_norm(CuratedRows[i][1]) : i \in DOMAIN CuratedRows}

\* the dict CURATED: normalized name -> (symbol, name, exchange).  A later
\* row with the same key would replace an earlier one, as in a dict literal.
CURATED ==
    [k \in CuratedKeys |->
        LET i == CHOOSE j \in DOMAIN CuratedRows :
                    /\ _norm(CuratedRows[j][1]) = k
                    /\ \A l \in DOMAIN CuratedRows : _norm(CuratedRows[l][1]) = k => l <= j
        IN  <<CuratedRows[i][2], CuratedRows[i][3], CuratedRows[i][4]>>]

\* a float in thousandths
Float(x) == [t |-> "float", v |-> x]

\* the dataclass TickerCandidate
TickerCandidate(symbol, shortname, longname, exchange, score, typeDisp, exchDisp) ==
    [symbol |-> symbol, shortname |-> shortname, longname |-> longname,
     exchange |-> exchange, score |-> score, typeDisp |-> typeDisp, exchDisp |-> exchDisp]

\* TickerCandidate.display_name
display_name(c) == Or(c.shortname, Or(c.longname, c.symbol))

\* InCurated with a table keyed by the lowercased names, not the normalized
\* ones
InCuratedLowercased(key) ==
    key \in {Lower(CuratedRows[i][1]) : i \in DOMAIN CuratedRows}

\* resolve_ticker, the test `key in CURATED`
InCurated(key) == key \in DOMAIN CURATED

\* resolve_ticker, the candidate built from the curated row
CuratedCandidate(key) ==
    LET row == CURATED[key]
    IN  TickerCandidate(row[1], row[2], row[2], row[3], 1000, EQUITY, row[3])

(***************************************************************************)
(* Bounds and input domains                                                *)
(***************************************************************************)
\* longest "quotes" array a search response carries in the model
MaxQuotes == 2

\* stop_after_attempt(3) of yahoo_suggest and of fetch_recent_news
YahooStopAttempt == 3
NewsStopAttempt == 3

UnknownStartupXYZ ==
    <<"U","n","k","n","o","w","n"," ","S","t","a","r","t","u","p"," ","X","Y","Z">>

\* company names typed into the app
CompanyNames ==
    { AppleInc,
      <<" ","a","p","p","l","e",","," "," ","I","N","C","."," ">>,
      <<"A","M","A","Z","O","N",".","C","O","M"," ","I","N","C">>,
      UnknownStartupXYZ,
      <<"A","p","p","l","e">> }

\* one entry of the "quotes" array of a search response; None is an absent
\* key, score is a number in thousandths, None, or "n/a" (not a number)
Quote(symbol, shortname, longname, score, typeDisp) ==
    [symbol |-> symbol, shortname |-> shortname, longname |-> longname,
     exchange |-> None, score |-> score, typeDisp |-> typeDisp, exchDisp |-> None]

Quotes ==
    { Quote(<<"X","Y","Z">>, UnknownStartupXYZ \o <<" ","L","t","d">>, None,
            [t |-> "float", v |-> 500], <<"E","q","u","i","t","y">>),
      Quote(<<"A","P","L","E">>, None,
            <<"A","p","p","l","e"," ","H","o","s","p","i","t","a","l","i","t","y">>,
            [t |-> "float", v |-> 2000], <<"O","p","t","i","o","n">>),
      Quote(None, None, None, [t |-> "none"], None),
      Quote(<<"B","A","D">>, <<"B","a","d">>, None, [t |-> "str"], <<"E","T","F">>) }

RECURSIVE SeqsUpTo(_, _)
SeqsUpTo(S, n) ==
    IF n = 0 THEN {<<>>}
    ELSE LET shorter == SeqsUpTo(S, n - 1)
         IN  shorter \cup {Append(q, x) : q \in {r \in shorter : Len(r) = n - 1}, x \in S}

(***************************************************************************)
(* ticker_resolver.yahoo_suggest                                            *)
(***************************************************************************)
\* float(q.get("score", 0.0) or 0.0): defined unless the score is a string
\* that is no number
ScoreIsFloat(q) == q.score.t # "str"

ScoreOf(q) == IF q.score.t = "float" THEN q.score.v ELSE 0

\* the TickerCandidate built from one quote
CandidateOfQuote(q) ==
    TickerCandidate(IF q.symbol = None THEN <<>> ELSE q.symbol,
                    Or(q.shortname, Or(q.longname, <<>>)),
                    q.longname, q.exchange, ScoreOf(q), q.typeDisp, q.exchDisp)

\* tenacity: retry_if_exception_type((requests.exceptions.RequestException,))
YahooRetryIf(e) == e = "RequestException"

\* YahooStop that counts the retries, not the attempts
YahooStopCountsRetries(n) == n > YahooStopAttempt

\* tenacity: stop_after_attempt(3), asked after the attempt numbered n
YahooStop(n) == n >= YahooStopAttempt

(***************************************************************************)
(* ticker_resolver._boost_score and the choice of the best candidate        *)
(***************************************************************************)
CommonStock == <<"C","O","M","M","O","N"," ","S","T","O","C","K">>
ETF == <<"E","T","F">>

\* str(x) of an Optional[str]
Str(x) == IF x = None THEN <<"N","o","n","e">> ELSE x

\* _boost_score without the bonus for the name tokens
BoostWithoutNameBonus(c, target_norm, prefer_equity) ==
    IF prefer_equity /\ Upper(Str(c.typeDisp)) \in {EQUITY, CommonStock, ETF}
    THEN c.score + 1500 ELSE c.score

_boost_score(c, target_norm, prefer_equity) ==
    LET base == c.score
        typed == IF prefer_equity /\ Upper(Str(c.typeDisp)) \in {EQUITY, CommonStock, ETF}
                 THEN base + 1500 ELSE base
        combined == _norm(c.shortname \o <<" ">> \o Or(c.longname, <<>>))
        toks == Split(target_norm)
    IN  IF \A i \in DOMAIN toks : Contains(combined, toks[i]) THEN typed + 1000 ELSE typed

\* max(candidates, key=...): the first candidate whose key is maximal
MaxByBoost(candidates, target, prefer_equity) ==
    LET i == CHOOSE j \in DOMAIN candidates :
                /\ \A k \in DOMAIN candidates :
                       _boost_score(candidates[k], target, prefer_equity)
                           <= _boost_score(candidates[j], target, prefer_equity)
                /\ \A k \in 1..(j - 1) :
                       _boost_score(candidates[k], target, prefer_equity)
                           < _boost_score(candidates[j], target, prefer_equity)
    IN  candidates[i]

(***************************************************************************)
(* news_fetcher: datetimes.  A datetime is [s, us]: whole seconds since    *)
(* the epoch and microseconds, in UTC.  An Optional[datetime] is <<>> for  *)
(* None and <<dt>> otherwise.                                              *)
(***************************************************************************)
DateTime(s, us) == [s |-> s, us |-> us]

\* dt1 < dt2 and dt1 >= dt2 of two aware datetimes
DtLess(a, b) == a.s < b.s \/ (a.s = b.s /\ a.us < b.us)
DtGeq(a, b) == ~DtLess(a, b)

\* n written in decimal with at least w digits, zero-padded
RECURSIVE Pad(_, _)
Pad(n, w) ==
    IF w <= 1 /\ n < 10 THEN <<DigitChars[n + 1]>>
    ELSE Pad(n \div 10, w - 1) \o <<DigitChars[(n % 10) + 1]>>

\* the proleptic Gregorian date (year, month, day) of a day number counted
\* from 1970-01-01, as datetime.fromtimestamp(secs, tz=utc) computes it
CivilFromDays(days) ==
    LET z == days + 719468
        era == z \div 146097
        doe == z - era * 146097
        yoe == (doe - (doe \div 1460) + (doe \div 36524) - (doe \div 146096)) \div 365
        doy == doe - (365 * yoe + (yoe \div 4) - (yoe \div 100))
        mp == (5 * doy + 2) \div 153
        d == doy - ((153 * mp + 2) \div 5) + 1
        m == IF mp < 10 THEN mp + 3 ELSE mp - 9
        y == yoe + era * 400 + (IF m <= 2 THEN 1 ELSE 0)
    IN  <<y, m, d>>

\* datetime.isoformat() of a UTC datetime: the fraction is written only when
\* the microseconds are not zero
IsoFormat(dt) ==
    LET ymd == CivilFromDays(dt.s \div 86400)
        rem == dt.s % 86400
    IN  Pad(ymd[1], 4) \o <<"-">> \o Pad(ymd[2], 2) \o <<"-">> \o Pad(ymd[3], 2)
        \o <<"T">> \o Pad(rem \div 3600, 2) \o <<":">> \o Pad((rem % 3600) \div 60, 2)
        \o <<":">> \o Pad(rem % 60, 2)
        \o (IF dt.us # 0 THEN <<".">> \o Pad(dt.us, 6) ELSE <<>>)
        \o <<"+","0","0",":","0","0">>

\* news_fetcher._to_iso: Optional[datetime] -> Optional[str]
_to_iso(dt) == IF dt # <<>> THEN IsoFormat(dt[1]) ELSE None

\* an epoch field of a raw record: absent, a number (whole seconds and
\* thousandths) or a string that is no number
NoField == [t |-> "none"]
BadField == [t |-> "bad"]
Epoch(s, ms) == [t |-> "num", s |-> s, ms |-> ms]

\* news_fetcher._parse_epoch_to_dt: int(float(v)) drops the fraction
_parse_epoch_to_dt(v) ==
    IF v.t = "none" THEN <<>>
    ELSE IF v.t = "num" THEN <<DateTime(v.s, 0)>>
    ELSE <<>>

\* content.pubDate: absent, the empty string, a string that is no ISO date,
\* or an ISO-8601 string reading wall-clock time `wall` (as seconds since
\* 1970-01-01T00:00:00 on that clock) and `us` microseconds at an offset of
\* `off` minutes from UTC ("Z" is the offset 0)
EmptyField == [t |-> "empty"]
Iso(wall, us, off) == [t |-> "iso", wall |-> wall, us |-> us, off |-> off]

\* news_fetcher._parse_iso_to_dt
_parse_iso_to_dt(v) ==
    IF v.t \in {"none", "empty"} THEN <<>>
    ELSE IF v.t = "iso" THEN <<DateTime(v.wall - 60 * v.off, v.us)>>
    ELSE <<>>

\* _extract_published_dt trying content.pubDate before providerPublishTime
ExtractPublishedDtIsoFirst(n) ==
    LET dt1 == _parse_iso_to_dt(n.content.pubDate)
        dt2 == _parse_epoch_to_dt(n.providerPublishTime)
    IN  IF dt1 # <<>> THEN dt1
        ELSE IF dt2 # <<>> THEN dt2
        ELSE _parse_epoch_to_dt(n.timePublished)

\* news_fetcher._extract_published_dt
_extract_published_dt(n) ==
    LET dt1 == _parse_epoch_to_dt(n.providerPublishTime)
        dt2 == _parse_iso_to_dt(n.content.pubDate)
    IN  IF dt1 # <<>> THEN dt1
        ELSE IF dt2 # <<>> THEN dt2
        ELSE _parse_epoch_to_dt(n.timePublished)

\* datetime.now(timezone.utc) - timedelta(days=lookback_days)
Cutoff(now, lookback_days) == DateTime(now.s - 86400 * lookback_days, now.us)

\* _within_lookback with dt > cutoff
WithinLookbackStrict(dt, lookback_days, now) ==
    IF dt = <<>> THEN FALSE ELSE DtLess(Cutoff(now, lookback_days), dt[1])

\* news_fetcher._within_lookback, with the clock reading `now`
_within_lookback(dt, lookback_days, now) ==
    IF dt = <<>> THEN FALSE ELSE DtGeq(dt[1], Cutoff(now, lookback_days))

\* news_fetcher._extract_link
_extract_link(n) ==
    IF Truthy(n.link) THEN n.link
    ELSE IF Truthy(n.content.canonicalUrl) THEN n.content.canonicalUrl
    ELSE IF Truthy(n.content.clickThroughUrl) THEN n.content.clickThroughUrl
    ELSE <<>>

\* news_fetcher._extract_publisher
_extract_publisher(n) == IF Truthy(n.publisher) THEN n.publisher ELSE n.content.provider

\* fetch_recent_news, line 126
ExtractTitle(n) == Strip(Or(n.title, Or(n.content.title, <<>>)))

\* the dataclass NewsItem; src is history only: the index in raw_news of the
\* record the item was made from
NewsItem(title, link, publisher, published_at, src) ==
    [title |-> title, link |-> link, publisher |-> publisher,
     published_at |-> published_at, related_tickers |-> <<>>, src |-> src]

\* Keeps without the test of the link
KeepsWithoutLink(n, lookback_days, now) ==
    /\ ExtractTitle(n) # <<>>
    /\ _within_lookback(_extract_published_dt(n), lookback_days, now)

\* fetch_recent_news, lines 133-136: the record is kept
Keeps(n, lookback_days, now) ==
    /\ ExtractTitle(n) # <<>>
    /\ _extract_link(n) # <<>>
    /\ _within_lookback(_extract_published_dt(n), lookback_days, now)

\* fetch_recent_news, lines 124-146: the loop over raw_news; nows[i] is the
\* reading of the clock while record i is processed
RECURSIVE CollectItems(_, _, _, _)
CollectItems(raw, nows, lookback_days, i) ==
    IF i > Len(raw) THEN <<>>
    ELSE LET n == raw[i]
             ts_iso == _to_iso(_extract_published_dt(n))
         IN  (IF Keeps(n, lookback_days, nows[i])
              THEN <<NewsItem(ExtractTitle(n), _extract_link(n), _extract_publisher(n),
                              IF ts_iso = None THEN <<>> ELSE ts_iso, i)>>
              ELSE <<>>)
             \o CollectItems(raw, nows, lookback_days, i + 1)

\* the code point of a character of an ISO timestamp
CharCode(c) ==
    IF c \in Range(DigitChars) THEN 47 + IndexOf(DigitChars, c)
    ELSE IF c = "+" THEN 43
    ELSE IF c = "-" THEN 45
    ELSE IF c = "." THEN 46
    ELSE IF c = ":" THEN 58
    ELSE 84

\* a < b of two str: lexicographic by code point
RECURSIVE StrLess(_, _)
StrLess(a, b) ==
    IF b = <<>> THEN FALSE
    ELSE IF a = <<>> THEN TRUE
    ELSE IF Head(a) = Head(b) THEN StrLess(Tail(a), Tail(b))
    ELSE CharCode(Head(a)) < CharCode(Head(b))

\* InsertDesc without reverse=True: oldest first
RECURSIVE InsertAsc(_, _)
InsertAsc(sorted, x) ==
    IF sorted = <<>> THEN <<x>>
    ELSE IF StrLess(x.published_at, Head(sorted).published_at) THEN <<x>> \o sorted
    ELSE <<Head(sorted)>> \o InsertAsc(Tail(sorted), x)

\* the place of x in a list already sorted newest first: behind every item
\* whose key is not smaller (the sort is stable)
RECURSIVE InsertDesc(_, _)
InsertDesc(sorted, x) ==
    IF sorted = <<>> THEN <<x>>
    ELSE IF StrLess(Head(sorted).published_at, x.published_at) THEN <<x>> \o sorted
    ELSE <<Head(sorted)>> \o InsertDesc(Tail(sorted), x)

\* items.sort(key=lambda x: x.published_at, reverse=True)
RECURSIVE SortDesc(_)
SortDesc(items) ==
    IF items = <<>> THEN <<>>
    ELSE InsertDesc(SortDesc(SubSeq(items, 1, Len(items) - 1)), items[Len(items)])

Max(a, b) == IF a >= b THEN a ELSE b
Min(a, b) == IF a <= b THEN a ELSE b

\* items[: max(0, top_k)]
Truncate(items, top_k) == SubSeq(items, 1, Min(Len(items), Max(0, top_k)))

\* what fetch_recent_news returns for the provider's records
FetchResult(raw, nows, lookback_days, top_k) ==
    Truncate(SortDesc(CollectItems(raw, nows, lookback_days, 1)), top_k)

\* news_fetcher.to_bulleted_newsdesc
RECURSIVE to_bulleted_newsdesc(_)
to_bulleted_newsdesc(items) ==
    IF items = <<>> THEN <<>>
    ELSE LET it == items[1]
             date_short == SubSeq(it.published_at, 1, Min(10, Len(it.published_at)))
             pub == IF Truthy(it.publisher) THEN <<" ","[">> \o it.publisher \o <<"]">> ELSE <<>>
             line == <<"-"," ">> \o date_short \o pub \o <<":"," ">> \o it.title
                     \o <<" ","(">> \o it.link \o <<")">>
         IN  IF Len(items) = 1 THEN line
             ELSE line \o <<"\n">> \o to_bulleted_newsdesc(Tail(items))

\* tenacity: retry_if_exception_type((Exception,))
NewsRetryIf(e) == TRUE

\* tenacity: stop_after_attempt(3), asked after the attempt numbered n
NewsStop(n) == n >= NewsStopAttempt

(***************************************************************************)
(* Input domains of the news provider and of the clock                     *)
(***************************************************************************)
\* longest list of raw records the news provider returns in the model
MaxRecords == 2

\* the clock at the call, 2026-11-08T10:00:00Z, in seconds since the epoch
NowSeconds == 1794132000

\* the readings datetime.now() can give during one call
ClockReadings == {DateTime(NowSeconds, 0), DateTime(NowSeconds, 500000)}

\* values of NEWS_LOOKBACK_DAYS and NEWS_TOP_K
LookbackDays == {7}
TopKs == {-1, 0, 1, 5}

\* the cutoff of the default lookback at the first clock reading
K == NowSeconds - 7 * 86400

Content(title, pubDate, canonicalUrl, clickThroughUrl, provider) ==
    [title |-> title, pubDate |-> pubDate, canonicalUrl |-> canonicalUrl,
     clickThroughUrl |-> clickThroughUrl, provider |-> provider]

\* a raw record of tk.news; a record without "content" is one whose content
\* has no field (n.get("content") or {})
Raw(title, link, publisher, providerPublishTime, timePublished, content) ==
    [title |-> title, link |-> link, publisher |-> publisher,
     providerPublishTime |-> providerPublishTime, timePublished |-> timePublished,
     content |-> content]

NoContent == Content(None, NoField, None, None, None)

RawRecords ==
    { \* one second (less a fraction) before the cutoff
      Raw(<<"T">>, <<"u">>, None, Epoch(K - 1, 999), NoField, NoContent),
      \* at the cutoff; the top-level fields win over the nested ones
      Raw(<<"T">>, <<"u">>, <<"P">>, Epoch(K, 0), NoField,
          Content(<<"N">>, Iso(K + 30 * 86400, 0, 0), <<"v">>, None, <<"Q">>)),
      \* nested title, link and date; half a second after the cutoff
      Raw(None, None, None, NoField, NoField,
          Content(<<"N">>, Iso(K, 500000, 0), <<"v">>, None, <<"Q">>)),
      \* a top-level title of blanks hides the nested title
      Raw(<<" ">>, <<"u">>, None, Epoch(K + 1, 0), NoField,
          Content(<<"N">>, NoField, None, None, None)),
      \* no link in any of the three places
      Raw(<<"T">>, None, None, Epoch(K + 1, 0), NoField,
          Content(None, NoField, <<>>, None, None)),
      \* only timePublished is usable: two days ago
      Raw(<<"T">>, None, None, BadField, Epoch(NowSeconds - 2 * 86400, 700),
          Content(None, EmptyField, None, <<"v">>, None)),
      \* no usable date
      Raw(<<"T">>, <<"u">>, None, NoField, NoField,
          Content(None, BadField, None, None, None)),
      \* an ISO date at +05:30: two days and one second ago, 09:59:59 UTC
      Raw(None, <<"u">>, None, NoField, NoField,
          Content(<<"N">>, Iso(NowSeconds - 2 * 86400 - 1 + 330 * 60, 0, 330),
                  None, None, None)) }

\* the clock never runs backwards between two readings
ClockRuns(n) ==
    {nows \in [1..n -> ClockReadings] :
        \A i \in 1..(n - 1) : ~DtLess(nows[i + 1], nows[i])}

(***************************************************************************)
(* models.sentiment_schema.SentimentResult                                  *)
(***************************************************************************)
\* values a caller or the LLM supplies as confidence_score: a float in
\* thousandths, nan, +inf, -inf, an int, a str holding a number, a str
\* holding none, None
NaN == [t |-> "nan"]
PosInf == [t |-> "inf"]
NegInf == [t |-> "-inf"]

ConfidenceInputs ==
    {Float(v) : v \in {-1500, -1, 0, 200, 870, 1000, 1001, 2500}}
    \cup {NaN, PosInf, NegInf}
    \cup {[t |-> "int", v |-> 2], [t |-> "int", v |-> 0]}
    \cup {[t |-> "str", numeric |-> TRUE, v |-> 700], [t |-> "str", numeric |-> FALSE, v |-> 0]}
    \cup {[t |-> "none"]}

\* a < b of two floats; false whenever one of them is nan
FloatLess(a, b) ==
    IF a.t = "nan" \/ b.t = "nan" THEN FALSE
    ELSE IF a.t = "-inf" THEN b.t # "-inf"
    ELSE IF b.t = "inf" THEN a.t # "inf"
    ELSE IF a.t = "inf" \/ b.t = "-inf" THEN FALSE
    ELSE a.v < b.v

\* Python min(a, b) and max(a, b): the first argument unless the second is
\* strictly smaller (greater)
PyMin(a, b) == IF FloatLess(b, a) THEN b ELSE a
PyMax(a, b) == IF FloatLess(a, b) THEN b ELSE a

\* float(v): defined for a float, an int and a str holding a number
FloatDefined(v) == v.t \in {"float", "nan", "inf", "-inf", "int"} \/ (v.t = "str" /\ v.numeric)

ToFloat(v) ==
    IF v.t = "int" THEN Float(1000 * v.v)
    ELSE IF v.t = "str" THEN Float(v.v)
    ELSE v

\* _clamp_confidence without the upper bound
ClampWithoutMin(v) ==
    IF FloatDefined(v) THEN PyMax(Float(0), ToFloat(v))
    ELSE Float(500)

\* SentimentResult._clamp_confidence
_clamp_confidence(v) ==
    IF FloatDefined(v) THEN PyMax(Float(0), PyMin(Float(1000), ToFloat(v)))
    ELSE Float(500)

\* the field confidence_score: float with @field_validator("confidence_score").
\* The validator is an "after" validator: the field is first validated as a
\* float, and a value that is no number is rejected there.
ConfidenceAccepted(v) == FloatDefined(v)

ValidateConfidence(v) == _clamp_confidence(ToFloat(v))

Sentiments == {"Positive", "Negative", "Neutral"}

\* the keyword arguments of SentimentResult(...): extra tells that a key the
\* model does not declare is present
ResultData(company_name, stock_code, desc, sentiment, market_implications, confidence, extra) ==
    [company_name |-> company_name, stock_code |-> stock_code, newsdesc |-> desc,
     sentiment |-> sentiment, market_implications |-> market_implications,
     confidence_score |-> confidence, extra |-> extra]

\* SentimentResult(**data) succeeds
Constructs(data) ==
    /\ data.sentiment \in Sentiments
    /\ ~data.extra
    /\ ConfidenceAccepted(data.confidence_score)

\* SentimentResult(**data).model_dump()
SentimentResult(data) ==
    [company_name |-> data.company_name, stock_code |-> data.stock_code,
     newsdesc |-> data.newsdesc, sentiment |-> data.sentiment,
     people_names |-> <<>>, places_names |-> <<>>, other_companies_referred |-> <<>>,
     related_industries |-> <<>>, market_implications |-> data.market_implications,
     confidence_score |-> ValidateConfidence(data.confidence_score)]

NoRecentArticles ==
    <<"(","n","o"," ","r","e","c","e","n","t"," ","a","r","t","i","c","l","e","s"," ",
      "f","o","u","n","d",")">>

\* IsBlank without strip()
IsBlankUnstripped(desc) == desc = <<>>

\* analyze_sentiment: `not newsdesc.strip()`
IsBlank(desc) == Strip(desc) = <<>>

\* analyze_sentiment, lines 32-39: the arguments of the fallback result
FallbackData(company_name, stock_code) ==
    ResultData(company_name, stock_code, NoRecentArticles, "Neutral",
               "Insufficient recent coverage; no clear directional signal.",
               Float(200), FALSE)

\* what the model replies: a sentiment (one of them outside the Literal),
\* a confidence, and whether it adds a key of its own
LLMOutputs ==
    {[sentiment |-> "Positive", confidence_score |-> c, extra |-> FALSE] : c \in ConfidenceInputs}
    \cup {[sentiment |-> "Bullish", confidence_score |-> Float(870), extra |-> FALSE],
          [sentiment |-> "Negative", confidence_score |-> Float(870), extra |-> TRUE],
          [sentiment |-> "Neutral", confidence_score |-> Float(2500), extra |-> FALSE]}

\* digests handed to analyze_sentiment by a caller other than run_pipeline
DirectDigests == {<<>>, <<" ">>, <<"\n", " ", "\t">>, <<" ", "x", "\n">>}

(***************************************************************************)
(* State                                                                   *)
(***************************************************************************)
VARIABLES
    pc,        \* position of the app: idle, direct, enter, body, exit, run_exit, done, raised
    stage,     \* the stage of run_pipeline being run: ticker, news, sentiment
    company,   \* run_pipeline's company_name
    settings,  \* run_pipeline's s
    cand,      \* run_pipeline's cand: <<>> for None, else <<candidate>>
    ticker,    \* run_pipeline's ticker
    newsdesc,  \* run_pipeline's newsdesc
    result,    \* run_pipeline's result: <<>> before it is assigned
    exc,       \* the exception propagating through run_pipeline, or "none"
    mlActive,  \* mlflow: the stack of active runs
    mlStarted, \* mlflow: the runs started so far
    mlEnded,   \* mlflow: the runs ended so far, with their status
    mlMetrics, \* mlflow: the metrics logged, as <<run, key>>
    mlParams,  \* mlflow: the parameters logged, as <<run, key>>
    mlArtifacts, \* mlflow: the artifacts logged, as <<run, path>>
    rt,        \* the call of resolve_ticker in progress
    ys,        \* the call of yahoo_suggest in progress
    nf,        \* the call of fetch_recent_news in progress
    sa         \* the call of analyze_sentiment in progress

vars == <<pc, stage, company, settings, cand, ticker, newsdesc, result, exc,
          mlActive, mlStarted, mlEnded, mlMetrics, mlParams, mlArtifacts, rt, ys, nf, sa>>

pipeVars == <<stage, company, settings, cand, ticker, newsdesc, result, exc>>
mlVars == <<mlActive, mlStarted, mlEnded, mlMetrics, mlParams, mlArtifacts>>

RtIdle == [status |-> "idle", company_name |-> None, result |-> <<>>, exc |-> "none"]
YsIdle == [status |-> "idle", query |-> None, log |-> <<>>, result |-> <<>>, exc |-> "none"]
NfIdle == [status |-> "idle", ticker |-> None, lookback_days |-> 0, top_k |-> 0,
           log |-> <<>>, raw |-> <<>>, nows |-> <<>>, items |-> <<>>, exc |-> "none"]
SaIdle == [status |-> "idle", company_name |-> None, stock_code |-> None, newsdesc |-> None,
           llmConstructed |-> 0, llmInvoked |-> 0, supplied |-> <<>>, result |-> <<>>,
           exc |-> "none"]
NoSettings == [news_lookback_days |-> 0, news_top_k |-> 0]

Init ==
    /\ pc = "idle"
    /\ stage = "none"
    /\ company = None
    /\ settings = NoSettings
    /\ cand = <<>>
    /\ ticker = None
    /\ newsdesc = None
    /\ result = <<>>
    /\ exc = "none"
    /\ mlActive = <<>>
    /\ mlStarted = <<>>
    /\ mlEnded = <<>>
    /\ mlMetrics = {}
    /\ mlParams = {}
    /\ mlArtifacts = {}
    /\ rt = RtIdle
    /\ ys = YsIdle
    /\ nf = NfIdle
    /\ sa = SaIdle

(***************************************************************************)
(* yahoo_suggest under its @retry decorator: one action per attempt         *)
(***************************************************************************)
\* what tenacity does after an attempt that raised e
YahooAfterFailure(e) ==
    LET log == Append(ys.log, e)
    IN  IF YahooRetryIf(e) /\ ~YahooStop(Len(log))
        THEN [ys EXCEPT !.log = log]
        ELSE [ys EXCEPT !.log = log, !.status = "raised", !.exc = e]

\* requests.get, raise_for_status or resp.json raises
YahooAttemptRequestError ==
    /\ ys.status = "running"
    /\ ys' = YahooAfterFailure("RequestException")
    /\ UNCHANGED <<pc, pipeVars, mlVars, rt, nf, sa>>

\* the provider answers with a "quotes" array
YahooAttemptResponse ==
    /\ ys.status = "running"
    /\ \E quotes \in SeqsUpTo(Quotes, MaxQuotes) :
          IF \A i \in DOMAIN quotes : ScoreIsFloat(quotes[i])
          THEN ys' = [ys EXCEPT !.log = Append(ys.log, "ok"), !.status = "returned",
                                !.result = [i \in DOMAIN quotes |-> CandidateOfQuote(quotes[i])]]
          ELSE ys' = YahooAfterFailure("ValueError")
    /\ UNCHANGED <<pc, pipeVars, mlVars, rt, nf, sa>>

(***************************************************************************)
(* resolve_ticker                                                           *)
(***************************************************************************)
\* the curated branch: lines 123-134
ResolveCurated ==
    /\ rt.status = "running"
    /\ InCurated(_norm(rt.company_name))
    /\ rt' = [rt EXCEPT !.status = "returned",
                        !.result = <<CuratedCandidate(_norm(rt.company_name))>>]
    /\ UNCHANGED <<pc, pipeVars, mlVars, ys, nf, sa>>

\* the call of yahoo_suggest: line 137
ResolveSearch ==
    /\ rt.status = "running"
    /\ ~InCurated(_norm(rt.company_name))
    /\ ys.status = "idle"
    /\ ys' = [YsIdle EXCEPT !.status = "running", !.query = rt.company_name]
    /\ UNCHANGED <<pc, pipeVars, mlVars, rt, nf, sa>>

\* after yahoo_suggest returned: lines 138-143
ResolveRank ==
    /\ rt.status = "running"
    /\ ys.status = "returned"
    /\ rt' = [rt EXCEPT !.status = "returned",
                        !.result = IF ys.result = <<>> THEN <<>>
                                   ELSE <<MaxByBoost(ys.result, _norm(rt.company_name), TRUE)>>]
    /\ UNCHANGED <<pc, pipeVars, mlVars, ys, nf, sa>>

\* yahoo_suggest raised: nothing in resolve_ticker catches it
ResolveRaise ==
    /\ rt.status = "running"
    /\ ys.status = "raised"
    /\ rt' = [rt EXCEPT !.status = "raised", !.exc = ys.exc]
    /\ UNCHANGED <<pc, pipeVars, mlVars, ys, nf, sa>>

(***************************************************************************)
(* fetch_recent_news under its @retry decorator: one action per attempt     *)
(***************************************************************************)
\* yf.Ticker(ticker).news raises
NewsAttemptError ==
    /\ nf.status = "running"
    /\ LET log == Append(nf.log, "Exception")
       IN  nf' = IF NewsRetryIf("Exception") /\ ~NewsStop(Len(log))
                 THEN [nf EXCEPT !.log = log]
                 ELSE [nf EXCEPT !.log = log, !.status = "raised", !.exc = "Exception"]
    /\ UNCHANGED <<pc, pipeVars, mlVars, rt, ys, sa>>

\* the provider answers with a list of raw records
NewsAttemptResponse ==
    /\ nf.status = "running"
    /\ \E raw \in SeqsUpTo(RawRecords, MaxRecords) :
         \E nows \in ClockRuns(Len(raw)) :
            nf' = [nf EXCEPT !.log = Append(nf.log, "ok"), !.status = "returned",
                             !.raw = raw, !.nows = nows,
                             !.items = FetchResult(raw, nows, nf.lookback_days, nf.top_k)]
    /\ UNCHANGED <<pc, pipeVars, mlVars, rt, ys, sa>>

(***************************************************************************)
(* analyze_sentiment                                                        *)
(***************************************************************************)
\* lines 30-40: the digest is blank
AnalyzeFallback ==
    /\ sa.status = "running"
    /\ IsBlank(sa.newsdesc)
    /\ LET data == FallbackData(sa.company_name, sa.stock_code)
       IN  sa' = IF Constructs(data)
                 THEN [sa EXCEPT !.status = "returned", !.supplied = <<data>>,
                                 !.result = <<SentimentResult(data)>>]
                 ELSE [sa EXCEPT !.status = "raised", !.supplied = <<data>>,
                                 !.exc = "ValidationError"]
    /\ UNCHANGED <<pc, pipeVars, mlVars, rt, ys, nf>>

\* lines 42-47: the model is built and invoked, and the call fails
AnalyzeLLMError ==
    /\ sa.status = "running"
    /\ ~IsBlank(sa.newsdesc)
    /\ sa' = [sa EXCEPT !.status = "raised", !.llmConstructed = @ + 1, !.llmInvoked = @ + 1,
                        !.exc = "LLMError"]
    /\ UNCHANGED <<pc, pipeVars, mlVars, rt, ys, nf>>

\* lines 42-50: the model is built and invoked, and its reply is validated
\* against SentimentResult
AnalyzeLLMReply ==
    /\ sa.status = "running"
    /\ ~IsBlank(sa.newsdesc)
    /\ \E out \in LLMOutputs :
         LET data == ResultData(sa.company_name, sa.stock_code, sa.newsdesc, out.sentiment,
                                "", out.confidence_score, out.extra)
         IN  sa' = IF Constructs(data)
                   THEN [sa EXCEPT !.status = "returned", !.llmConstructed = @ + 1,
                                   !.llmInvoked = @ + 1, !.supplied = <<data>>,
                                   !.result = <<SentimentResult(data)>>]
                   ELSE [sa EXCEPT !.status = "raised", !.llmConstructed = @ + 1,
                                   !.llmInvoked = @ + 1, !.supplied = <<data>>,
                                   !.exc = "ValidationError"]
    /\ UNCHANGED <<pc, pipeVars, mlVars, rt, ys, nf>>

\* a caller other than run_pipeline calls analyze_sentiment
DirectAnalyze ==
    /\ pc = "idle"
    /\ \E desc \in DirectDigests :
          sa' = [SaIdle EXCEPT !.status = "running", !.company_name = AppleInc,
                               !.stock_code = <<"A","A","P","L">>, !.newsdesc = desc]
    /\ pc' = "direct"
    /\ UNCHANGED <<pipeVars, mlVars, rt, ys, nf>>

DirectReturn ==
    /\ pc = "direct"
    /\ sa.status \in {"returned", "raised"}
    /\ pc' = "idle"
    /\ sa' = SaIdle
    /\ UNCHANGED <<pipeVars, mlVars, rt, ys, nf>>

(***************************************************************************)
(* run_pipeline, with observability.mlflow_utils.span around each stage     *)
(***************************************************************************)
\* the environment get_settings reads
Environments ==
    [google_api_key : {<<>>, <<"k">>}, use_vertex : BOOLEAN,
     news_lookback_days : LookbackDays, news_top_k : TopKs]

\* config.get_settings raises
SettingsRejected(env) == env.google_api_key = <<>> \/ env.use_vertex

\* lines 23-27: get_settings, init_mlflow, mlflow.start_run
PipelineStart ==
    /\ pc = "idle"
    /\ \E c \in CompanyNames, env \in Environments :
          /\ company' = c
          /\ IF SettingsRejected(env)
             THEN /\ pc' = "raised"
                  /\ exc' = "RuntimeError"
                  /\ UNCHANGED <<stage, settings, mlActive, mlStarted>>
             ELSE /\ pc' = "enter"
                  /\ stage' = "ticker"
                  /\ settings' = [news_lookback_days |-> env.news_lookback_days,
                                  news_top_k |-> env.news_top_k]
                  /\ mlActive' = <<"analyze">>
                  /\ mlStarted' = <<"analyze">>
                  /\ UNCHANGED exc
    /\ UNCHANGED <<cand, ticker, newsdesc, result, mlEnded, mlMetrics, mlParams, mlArtifacts,
                   rt, ys, nf, sa>>

\* the keys of the params each span is entered with
SpanParams(name) ==
    IF name = "ticker" THEN {"company_name"}
    ELSE IF name = "news" THEN {"ticker", "lookback_days", "top_k"}
    ELSE {"model"}

\* span, lines 23-26: the nested run is started and the params are logged
SpanEnter ==
    /\ pc = "enter"
    /\ mlActive' = Append(mlActive, stage)
    /\ mlStarted' = Append(mlStarted, stage)
    /\ mlParams' = mlParams \cup {<<stage, k>> : k \in SpanParams(stage)}
    /\ pc' = "body"
    /\ UNCHANGED <<pipeVars, mlEnded, mlMetrics, mlArtifacts, rt, ys, nf, sa>>

\* TickerOf falling back to the normalized name
TickerOfNormalized(c, company_name) == IF c # <<>> THEN c[1].symbol ELSE _norm(company_name)

\* lines 31-39: the ticker the later stages are given
TickerOf(c, company_name) == IF c # <<>> THEN c[1].symbol ELSE company_name

\* line 30: resolve_ticker(company_name) is called
TickerCall ==
    /\ pc = "body" /\ stage = "ticker"
    /\ rt.status = "idle"
    /\ rt' = [RtIdle EXCEPT !.status = "running", !.company_name = company]
    /\ UNCHANGED <<pc, pipeVars, mlVars, ys, nf, sa>>

\* lines 30-40: resolve_ticker returned or raised
TickerBody ==
    /\ pc = "body" /\ stage = "ticker"
    /\ rt.status \in {"returned", "raised"}
    /\ IF rt.status = "returned"
       THEN /\ cand' = rt.result
            /\ ticker' = TickerOf(rt.result, company)
            /\ mlParams' = mlParams \cup
                   {<<"ticker", k>> : k \in IF rt.result # <<>>
                                            THEN {"ticker.symbol", "ticker.exchange",
                                                  "ticker.display_name"}
                                            ELSE {"ticker.symbol", "ticker.exchange"}}
            /\ UNCHANGED exc
       ELSE /\ exc' = rt.exc
            /\ UNCHANGED <<cand, ticker, mlParams>>
    /\ rt' = RtIdle
    /\ ys' = YsIdle
    /\ pc' = "exit"
    /\ UNCHANGED <<stage, company, settings, newsdesc, result, mlActive, mlStarted, mlEnded,
                   mlMetrics, mlArtifacts, nf, sa>>

\* line 44: fetch_recent_news is called
NewsCall ==
    /\ pc = "body" /\ stage = "news"
    /\ nf.status = "idle"
    /\ nf' = [NfIdle EXCEPT !.status = "running", !.ticker = ticker,
                            !.lookback_days = settings.news_lookback_days,
                            !.top_k = settings.news_top_k]
    /\ UNCHANGED <<pc, pipeVars, mlVars, rt, ys, sa>>

\* lines 44-51: fetch_recent_news returned or raised; snapshot tells whether
\* optional_tool_snapshot gave a text
NewsBody ==
    /\ pc = "body" /\ stage = "news"
    /\ nf.status \in {"returned", "raised"}
    /\ IF nf.status = "returned"
       THEN /\ newsdesc' = to_bulleted_newsdesc(nf.items)
            /\ \E snapshot \in BOOLEAN :
                  mlArtifacts' = mlArtifacts
                      \cup {<<"news", "news/newsdesc.txt">>, <<"news", "news/news_items.json">>}
                      \cup (IF snapshot THEN {<<"news", "news/yahoo_tool_snapshot.txt">>} ELSE {})
            /\ UNCHANGED exc
       ELSE /\ exc' = nf.exc
            /\ UNCHANGED <<newsdesc, mlArtifacts>>
    /\ nf' = NfIdle
    /\ pc' = "exit"
    /\ UNCHANGED <<stage, company, settings, cand, ticker, result, mlActive, mlStarted,
                   mlEnded, mlMetrics, mlParams, rt, ys, sa>>

\* lines 55-66: the prompt text is logged and analyze_sentiment is called
SentimentCall ==
    /\ pc = "body" /\ stage = "sentiment"
    /\ sa.status = "idle"
    /\ mlArtifacts' = mlArtifacts \cup {<<"sentiment", "sentiment/prompt.txt">>}
    /\ sa' = [SaIdle EXCEPT !.status = "running", !.company_name = company,
                            !.stock_code = ticker, !.newsdesc = newsdesc]
    /\ UNCHANGED <<pc, pipeVars, mlActive, mlStarted, mlEnded, mlMetrics, mlParams,
                   rt, ys, nf>>

\* lines 66-72: analyze_sentiment returned or raised
SentimentBody ==
    /\ pc = "body" /\ stage = "sentiment"
    /\ sa.status \in {"returned", "raised"}
    /\ IF sa.status = "returned"
       THEN /\ result' = sa.result
            /\ mlArtifacts' = mlArtifacts \cup {<<"sentiment", "sentiment/sentiment.json">>}
            /\ mlMetrics' = mlMetrics \cup {<<"sentiment", "confidence_score">>}
            /\ UNCHANGED exc
       ELSE /\ exc' = sa.exc
            /\ UNCHANGED <<result, mlArtifacts, mlMetrics>>
    /\ sa' = SaIdle
    /\ pc' = "exit"
    /\ UNCHANGED <<stage, company, settings, cand, ticker, newsdesc, mlActive, mlStarted,
                   mlEnded, mlParams, rt, ys, nf>>

NextStage(st) == IF st = "ticker" THEN "news" ELSE "sentiment"

\* SpanExitMetrics without try/finally: no duration after an exception
SpanExitMetricsNoFinally(name, e) ==
    IF e = "none" THEN mlMetrics \cup {<<name, "duration_ms">>} ELSE mlMetrics

\* span, lines 27-31: the metrics after the try/finally around the stage,
\* left by an exception e or by none
SpanExitMetrics(name, e) == mlMetrics \cup {<<name, "duration_ms">>}

\* span, lines 29-31, and the exit of its mlflow.start_run: the duration is
\* logged, the nested run is ended, and an exception goes on to the outer run
SpanExit ==
    /\ pc = "exit"
    /\ mlMetrics' = SpanExitMetrics(stage, exc)
    /\ mlActive' = SubSeq(mlActive, 1, Len(mlActive) - 1)
    /\ mlEnded' = Append(mlEnded, [run |-> mlActive[Len(mlActive)],
                                   status |-> IF exc = "none" THEN "FINISHED" ELSE "FAILED"])
    /\ IF exc # "none" \/ stage = "sentiment"
       THEN pc' = "run_exit" /\ UNCHANGED stage
       ELSE pc' = "enter" /\ stage' = NextStage(stage)
    /\ UNCHANGED <<company, settings, cand, ticker, newsdesc, result, exc, mlStarted,
                   mlParams, mlArtifacts, rt, ys, nf, sa>>

\* the exit of the outer mlflow.start_run (line 27), on return and on an
\* exception
RunExit ==
    /\ pc = "run_exit"
    /\ mlActive' = SubSeq(mlActive, 1, Len(mlActive) - 1)
    /\ mlEnded' = Append(mlEnded, [run |-> mlActive[Len(mlActive)],
                                   status |-> IF exc = "none" THEN "FINISHED" ELSE "FAILED"])
    /\ pc' = IF exc = "none" THEN "done" ELSE "raised"
    /\ UNCHANGED <<pipeVars, mlStarted, mlMetrics, mlParams, mlArtifacts, rt, ys, nf, sa>>

\* app.py, lines 11-19: the result or the error is shown; the next click
\* starts a new run
AppShow ==
    /\ pc \in {"done", "raised"}
    /\ pc' = "idle"
    /\ stage' = "none"
    /\ company' = None
    /\ settings' = NoSettings
    /\ cand' = <<>>
    /\ ticker' = None
    /\ newsdesc' = None
    /\ result' = <<>>
    /\ exc' = "none"
    /\ mlActive' = <<>>
    /\ mlStarted' = <<>>
    /\ mlEnded' = <<>>
    /\ mlMetrics' = {}
    /\ mlParams' = {}
    /\ mlArtifacts' = {}
    /\ UNCHANGED <<rt, ys, nf, sa>>

Next ==
    \/ PipelineStart
    \/ SpanEnter
    \/ TickerCall
    \/ ResolveCurated
    \/ ResolveSearch
    \/ YahooAttemptRequestError
    \/ YahooAttemptResponse
    \/ ResolveRank
    \/ ResolveRaise
    \/ TickerBody
    \/ NewsCall
    \/ NewsAttemptError
    \/ NewsAttemptResponse
    \/ NewsBody
    \/ SentimentCall
    \/ AnalyzeFallback
    \/ AnalyzeLLMError
    \/ AnalyzeLLMReply
    \/ SentimentBody
    \/ SpanExit
    \/ RunExit
    \/ AppShow
    \/ DirectAnalyze
    \/ DirectReturn

Spec == Init /\ [][Next]_vars

(***************************************************************************)
(* Properties                                                               *)
(***************************************************************************)
Last(q) == q[Len(q)]

\* C1: a company name whose normalized form is a key of the curated table
\* resolves to a candidate with the mapped symbol, score 1.0 and type
\* "EQUITY", and yahoo_suggest is never called during that resolution.
CuratedBypassesSearch ==
    \A i \in DOMAIN CuratedRows :
        (rt.status # "idle" /\ _norm(rt.company_name) = _norm(CuratedRows[i][1]))
        => /\ ys = YsIdle
           /\ rt.status # "raised"
           /\ rt.status = "returned"
              => /\ Len(rt.result) = 1
                 /\ rt.result[1].symbol = CuratedRows[i][2]
                 /\ rt.result[1].score = 1000
                 /\ rt.result[1].typeDisp = EQUITY

CuratedWitness ==
    /\ rt.status = "returned"
    /\ rt.company_name = <<"A","M","A","Z","O","N",".","C","O","M"," ","I","N","C">>
    /\ rt.result[1].symbol = <<"A","M","Z","N">>
    /\ ys = YsIdle

AllWhitespace(desc) == \A i \in DOMAIN desc : desc[i] \in Whitespace

\* C2: for an empty or whitespace-only digest analyze_sentiment returns
\* sentiment "Neutral" with confidence 0.2 and neither builds nor invokes the
\* LLM; the LLM is invoked only for a digest that is not blank.
BlankDigestIsNeutral ==
    sa.status # "idle"
    => /\ AllWhitespace(sa.newsdesc)
          => /\ sa.llmConstructed = 0
             /\ sa.llmInvoked = 0
             /\ sa.status # "raised"
             /\ sa.status = "returned"
                => /\ sa.result[1].sentiment = "Neutral"
                   /\ sa.result[1].confidence_score = Float(200)
       /\ sa.llmInvoked > 0 => ~AllWhitespace(sa.newsdesc)

BlankDigestWitness ==
    /\ sa.status = "returned"
    /\ sa.newsdesc = <<"\n", " ", "\t">>
    /\ sa.result[1].sentiment = "Neutral"

\* the attempts of one call under the retry policy: at most 3; every attempt
\* but the last failed with the retried error; the call returned exactly when
\* the last attempt succeeded; it raised the error of the last attempt, and
\* a retried error only after the third attempt; after three failures it has
\* raised
RetriedUpTo3(frame, retried) ==
    /\ Len(frame.log) <= 3
    /\ \A i \in 1..(Len(frame.log) - 1) : frame.log[i] = retried
    /\ frame.status = "returned" <=> (frame.log # <<>> /\ Last(frame.log) = "ok")
    /\ frame.status = "raised"
       => /\ frame.log # <<>>
          /\ frame.exc = Last(frame.log)
          /\ frame.exc # "ok"
          /\ frame.exc = retried => Len(frame.log) = 3
    /\ frame.status = "running" => Len(frame.log) < 3
    /\ (Len(frame.log) = 3 /\ Last(frame.log) # "ok") => frame.status = "raised"

\* C3: a call of yahoo_suggest or of fetch_recent_news that fails with a
\* network/API error is attempted again until it succeeds or 3 attempts were
\* made: never more than 3 attempts, no attempt after a success, and the
\* error propagates after the third failure.
RetryAtMostThreeAttempts ==
    /\ RetriedUpTo3(ys, "RequestException")
    /\ RetriedUpTo3(nf, "Exception")

RetryWitness ==
    /\ ys.status = "raised"
    /\ ys.log = <<"RequestException", "RequestException", "RequestException">>
    /\ ys.exc = "RequestException"

Stages == {"ticker", "news", "sentiment"}

\* C4: when a stage of run_pipeline raises, no later stage is run, no result
\* is returned, and every span and the run that were opened are closed, each
\* span with its duration metric, before the exception leaves run_pipeline.
ExceptionAbortsAndCloses ==
    /\ (exc # "none" /\ pc # "idle")
       => /\ pc \in {"exit", "run_exit", "raised"}
          /\ result = <<>>
          /\ rt.status = "idle" /\ ys.status = "idle"
          /\ nf.status = "idle" /\ sa.status = "idle"
          /\ mlStarted # <<>> => (Len(mlStarted) > 1 /\ Last(mlStarted) = stage)
    /\ pc = "raised"
       => /\ exc # "none"
          /\ mlActive = <<>>
          /\ \A i \in DOMAIN mlStarted :
                /\ \E j \in DOMAIN mlEnded : mlEnded[j].run = mlStarted[i]
                /\ mlStarted[i] \in Stages => <<mlStarted[i], "duration_ms">> \in mlMetrics
    /\ pc = "done" => (exc = "none" /\ result # <<>>)

ExceptionWitness ==
    /\ pc = "raised"
    /\ stage = "news"
    /\ mlStarted = <<"analyze", "ticker", "news">>
    /\ Len(mlEnded) = 3
    /\ <<"news", "duration_ms">> \in mlMetrics

\* the timestamp of the raw record an item was made from
DtOfItem(it) == _extract_published_dt(nf.raw[it.src])[1]

\* the records of the answer that pass the title, link and recency tests
Passing ==
    {i \in DOMAIN nf.raw :
        /\ ExtractTitle(nf.raw[i]) # <<>>
        /\ _extract_link(nf.raw[i]) # <<>>
        /\ _extract_published_dt(nf.raw[i]) # <<>>
        /\ DtGeq(_extract_published_dt(nf.raw[i])[1], Cutoff(nf.nows[i], nf.lookback_days))}

\* C5: the sequence fetch_recent_news returns is ordered by timestamp from
\* newest to oldest (as instants, not as strings), has at most max(0, top_k)
\* items, is empty for top_k = 0, and keeps the newest records that passed
\* the filter.
NewestFirstAtMostTopK ==
    nf.status = "returned"
    => /\ \A i, j \in DOMAIN nf.items :
              i < j => DtGeq(DtOfItem(nf.items[i]), DtOfItem(nf.items[j]))
       /\ Len(nf.items) <= Max(0, nf.top_k)
       /\ nf.top_k <= 0 => nf.items = <<>>
       /\ Len(nf.items) = Min(Cardinality(Passing), Max(0, nf.top_k))
       /\ \A i, j \in DOMAIN nf.items : i # j => nf.items[i].src # nf.items[j].src
       /\ \A i \in DOMAIN nf.items : nf.items[i].src \in Passing
       /\ \A p \in Passing :
              (\A i \in DOMAIN nf.items : nf.items[i].src # p)
              => \A i \in DOMAIN nf.items :
                     DtGeq(DtOfItem(nf.items[i]), _extract_published_dt(nf.raw[p])[1])

\* two items an hour boundary apart, 09:59:59 and 10:00:00, the newer first
NewestFirstWitness ==
    /\ nf.status = "returned"
    /\ Len(nf.items) = 2
    /\ DtOfItem(nf.items[1]) = DateTime(NowSeconds - 2 * 86400, 0)
    /\ DtOfItem(nf.items[2]) = DateTime(NowSeconds - 2 * 86400 - 1, 0)
    /\ nf.raw[1] # nf.raw[2]
    /\ nf.items[1].src = 2

\* C6: a record whose timestamp is missing or strictly older than
\* now - lookback_days never appears in the output; a record whose timestamp
\* equals the cutoff is not excluded by the recency test.
OldExcludedCutoffIncluded ==
    nf.status = "returned"
    => /\ \A k \in DOMAIN nf.items :
              LET i == nf.items[k].src
                  dt == _extract_published_dt(nf.raw[i])
              IN  /\ dt # <<>>
                  /\ ~DtLess(dt[1], Cutoff(nf.nows[i], nf.lookback_days))
       /\ \A i \in DOMAIN nf.raw :
              LET dt == _extract_published_dt(nf.raw[i])
              IN  (/\ dt = <<Cutoff(nf.nows[i], nf.lookback_days)>>
                   /\ ExtractTitle(nf.raw[i]) # <<>>
                   /\ _extract_link(nf.raw[i]) # <<>>
                   /\ Len(nf.raw) <= nf.top_k)
                  => \E k \in DOMAIN nf.items : nf.items[k].src = i

\* a record exactly at the cutoff is returned, and one older is not
CutoffWitness ==
    /\ nf.status = "returned"
    /\ Len(nf.raw) = 2
    /\ _extract_published_dt(nf.raw[1]) = <<Cutoff(nf.nows[1], nf.lookback_days)>>
    /\ _extract_published_dt(nf.raw[2]) # <<>>
    /\ DtLess(_extract_published_dt(nf.raw[2])[1], Cutoff(nf.nows[2], nf.lookback_days))
    /\ Len(nf.items) = 1
    /\ nf.items[1].src = 1

\* no title in either place after trimming
NoTitle(n) ==
    /\ n.title = None \/ Strip(n.title) = <<>>
    /\ n.content.title = None \/ Strip(n.content.title) = <<>>

\* no link in any of the three places
NoLink(n) ==
    /\ ~Truthy(n.link)
    /\ ~Truthy(n.content.canonicalUrl)
    /\ ~Truthy(n.content.clickThroughUrl)

\* C7: a raw record with no extractable title or no extractable link is
\* absent from the output of fetch_recent_news, and every returned item has a
\* non-empty title and a non-empty link.
TitleAndLinkRequired ==
    nf.status = "returned"
    => /\ \A k \in DOMAIN nf.items :
              /\ nf.items[k].title \notin {None, <<>>}
              /\ nf.items[k].link \notin {None, <<>>}
              /\ ~NoTitle(nf.raw[nf.items[k].src])
              /\ ~NoLink(nf.raw[nf.items[k].src])
       /\ \A i \in DOMAIN nf.raw :
              (NoTitle(nf.raw[i]) \/ NoLink(nf.raw[i]))
              => \A k \in DOMAIN nf.items : nf.items[k].src # i

\* a record without a link is dropped although its date is recent, next to
\* a record whose title and link are the nested ones
TitleAndLinkWitness ==
    /\ nf.status = "returned"
    /\ Len(nf.raw) = 2
    /\ NoLink(nf.raw[1])
    /\ ~NoTitle(nf.raw[1])
    /\ _within_lookback(_extract_published_dt(nf.raw[1]), nf.lookback_days, nf.nows[1])
    /\ Len(nf.items) = 1
    /\ nf.items[1].src = 2
    /\ nf.items[1].title = <<"N">>
    /\ nf.items[1].link = <<"v">>

\* the number (in thousandths) a supplied confidence stands for
IsFiniteNumber(c) == c.t \in {"float", "int"} \/ (c.t = "str" /\ c.numeric)
NumberOf(c) == IF c.t = "int" THEN 1000 * c.v ELSE c.v

\* C8: the confidence_score of every SentimentResult that was constructed
\* lies in [0.0, 1.0]: a supplied value above 1 is stored as 1.0, one below 0
\* as 0.0, one in the range unchanged.
ConfidenceClamped ==
    sa.status = "returned"
    => LET c == sa.supplied[1].confidence_score
           r == sa.result[1].confidence_score
       IN  /\ r.t = "float"
           /\ 0 <= r.v /\ r.v <= 1000
           /\ IsFiniteNumber(c)
              => /\ NumberOf(c) > 1000 => r.v = 1000
                 /\ NumberOf(c) < 0 => r.v = 0
                 /\ (0 <= NumberOf(c) /\ NumberOf(c) <= 1000) => r.v = NumberOf(c)
           /\ c.t = "inf" => r.v = 1000
           /\ c.t = "-inf" => r.v = 0

ConfidenceClampedWitness ==
    /\ sa.status = "returned"
    /\ sa.supplied[1].confidence_score = Float(2500)
    /\ sa.result[1].confidence_score = Float(1000)

\* a confidence that is no number: a str holding none, or None
NonNumeric(c) == c.t = "none" \/ (c.t = "str" /\ ~c.numeric)

\* C9: constructing a SentimentResult with a non-numeric confidence_score
\* does not fail; the result has confidence_score 0.5.
NonNumericConfidenceFallsBack ==
    (/\ sa.status \in {"returned", "raised"}
     /\ sa.supplied # <<>>
     /\ NonNumeric(sa.supplied[1].confidence_score)
     /\ sa.supplied[1].sentiment \in Sentiments
     /\ ~sa.supplied[1].extra)
    => /\ sa.status = "returned"
       /\ sa.result[1].confidence_score = Float(500)

\* C10: when resolve_ticker returns None, run_pipeline goes on, and the
\* ticker given to fetch_recent_news and to analyze_sentiment is the company
\* name as typed; when a candidate is returned it is the candidate's symbol.
TickerFallsBackToName ==
    LET expected == IF cand = <<>> THEN company ELSE cand[1].symbol
    IN  /\ (stage \in {"news", "sentiment"} /\ pc # "idle") => ticker = expected
        /\ nf.status # "idle" => nf.ticker = expected
        /\ (sa.status # "idle" /\ pc # "direct") => sa.stock_code = expected
        /\ (stage = "ticker" /\ pc = "exit" /\ exc = "none") => ticker = expected

TickerFallbackWitness ==
    /\ nf.status = "returned"
    /\ cand = <<>>
    /\ company = UnknownStartupXYZ
    /\ nf.ticker = UnknownStartupXYZ
    /\ exc = "none"

\* the instrument types that earn the bonus, whatever their case
EquityLike(typeDisp) ==
    typeDisp # None
    /\ Lower(typeDisp) \in {Lower(EQUITY), Lower(CommonStock), Lower(ETF)}

\* every normalized token of the name is a substring of the normalized
\* short name or of the normalized long name
NameTokensFound(c, name) ==
    LET toks == Split(_norm(name))
    IN  \A i \in DOMAIN toks :
            \/ Contains(_norm(c.shortname), toks[i])
            \/ (c.longname # None /\ Contains(_norm(c.longname), toks[i]))

\* the boosted score of C11, in thousandths, with prefer_equity on
BoostedScore(c, name) ==
    c.score + (IF EquityLike(c.typeDisp) THEN 1500 ELSE 0)
            + (IF NameTokensFound(c, name) THEN 1000 ELSE 0)

\* C11: for a name outside the curated table resolve_ticker returns None
\* exactly when the search gave no candidate, and otherwise a candidate of
\* the search whose boosted score (provider score, +1.5 for an equity-like
\* type, +1.0 when every token of the name is found in the candidate's
\* names) is maximal.
BestBoostedCandidate ==
    (rt.status = "returned" /\ _norm(rt.company_name) \notin CuratedKeys)
    => /\ ys.status = "returned"
       /\ rt.result = <<>> <=> ys.result = <<>>
       /\ rt.result # <<>>
          => /\ \E i \in DOMAIN ys.result : ys.result[i] = rt.result[1]
             /\ \A i \in DOMAIN ys.result :
                    BoostedScore(ys.result[i], rt.company_name)
                        <= BoostedScore(rt.result[1], rt.company_name)

\* the second candidate wins on the name bonus alone: 2.0 + 1.0 against
\* 0.5 + 1.5
BestBoostedWitness ==
    /\ rt.status = "returned"
    /\ rt.company_name = <<"A","p","p","l","e">>
    /\ Len(ys.result) = 2
    /\ ys.result[1].symbol = <<"X","Y","Z">>
    /\ ys.result[2].symbol = <<"A","P","L","E">>
    /\ rt.result = <<ys.result[2]>>

\* the three timestamp fields of a raw record, in the order of C12, each with
\* the datetime it stands for when it is read alone
TimestampFields(n) ==
    << [value |-> n.providerPublishTime, dt |-> _parse_epoch_to_dt(n.providerPublishTime)],
       [value |-> n.content.pubDate, dt |-> _parse_iso_to_dt(n.content.pubDate)],
       [value |-> n.timePublished, dt |-> _parse_epoch_to_dt(n.timePublished)] >>

\* the timestamp of the first field that satisfies Counts, or none
FirstField(n, Counts(_)) ==
    LET fs == TimestampFields(n)
    IN  IF \E i \in DOMAIN fs : Counts(fs[i])
        THEN fs[CHOOSE i \in DOMAIN fs :
                    Counts(fs[i]) /\ \A j \in 1..(i - 1) : ~Counts(fs[j])].dt
        ELSE <<>>

\* the field is not null
NonNull(f) == f.value.t # "none"

\* the field holds a timestamp: it is not null and it parses
HoldsTimestamp(f) == f.dt # <<>>

\* what the items of a returned call show of the timestamp of their records,
\* when Dt(n) is the timestamp a record has: an item carries Dt of its
\* record, and a record with title and link that top_k does not cut off is
\* returned exactly when Dt of it exists and is within the lookback
ItemsShowTimestamp(Dt(_)) ==
    nf.status = "returned"
    => /\ \A k \in DOMAIN nf.items :
              LET dt == Dt(nf.raw[nf.items[k].src])
              IN  dt # <<>> /\ nf.items[k].published_at = IsoFormat(dt[1])
       /\ \A i \in DOMAIN nf.raw :
              (/\ ExtractTitle(nf.raw[i]) # <<>>
               /\ _extract_link(nf.raw[i]) # <<>>
               /\ Len(nf.raw) <= nf.top_k)
              => ((\E k \in DOMAIN nf.items : nf.items[k].src = i)
                  <=> LET dt == Dt(nf.raw[i])
                      IN  dt # <<>>
                          /\ ~DtLess(dt[1], Cutoff(nf.nows[i], nf.lookback_days)))

TimestampOfFirstNonNull(n) == FirstField(n, NonNull)
TimestampOfFirstParsed(n) == FirstField(n, HoldsTimestamp)

\* C12, as claimed: the published timestamp of a raw record is that of the
\* first non-null field among providerPublishTime, content.pubDate and
\* timePublished; a later field is consulted only when every earlier field
\* is null.
TimestampFromFirstNonNull == ItemsShowTimestamp(TimestampOfFirstNonNull)

\* C12, amended: the published timestamp of a raw record is that of the
\* first field, in the same order, that is non-null and parses to a
\* timestamp; a later field is consulted only when every earlier field is
\* null or does not parse, and that first field alone determines the
\* timestamp.
TimestampFromFirstParsed == ItemsShowTimestamp(TimestampOfFirstParsed)

\* a record whose providerPublishTime is no number and whose pubDate is the
\* empty string is returned with the date of its timePublished; next to it a
\* record whose providerPublishTime wins over its pubDate
FirstParsedWitness ==
    /\ nf.status = "returned"
    /\ Len(nf.items) = 2
    /\ LET n == nf.raw[nf.items[1].src]
           o == nf.raw[nf.items[2].src]
       IN  /\ n.providerPublishTime = BadField
           /\ n.content.pubDate = EmptyField
           /\ n.timePublished.t = "num"
           /\ nf.items[1].published_at = IsoFormat(DateTime(n.timePublished.s, 0))
           /\ o.providerPublishTime.t = "num"
           /\ o.content.pubDate.t = "iso"
           /\ nf.items[2].published_at = IsoFormat(DateTime(o.providerPublishTime.s, 0))

====
